---- MODULE Spec2Model ----
(***************************************************************************)
(* The command bridge of ClaudeMCP_Remote/__init__.py: socket threads      *)
(* (_handle_client) hand commands over command_queue to the host's tick    *)
(* (update_display), which runs _process_command and hands the result back *)
(* through response_queues[request_id].                                    *)
(*                                                                         *)
(* A handler step is one stretch of code between two points where another  *)
(* thread can observe or change shared state; the blocking calls (recv,    *)
(* Queue.get, sendall) end a step.  Variables named as in the source are   *)
(* the program's; the last group records history for the properties.       *)
(***************************************************************************)
EXTENDS Integers, Sequences, FiniteSets, TLC

\* ---------------------------------------------------------------- bounds
NumConns == 2        \* client connections the acceptor may accept
MaxFrames == 2       \* frames all clients begin to send in total
MaxChunk == 2        \* complete frames one recv may deliver
BurstMax == 10       \* the largest burst of queued commands
MaxStream == 4       \* bytes of the stream whose framing is followed byte by byte

\* ------------------------------------------------------ program constants
max_commands_per_tick == 5

Conns == 1..NumConns
None == [none |-> TRUE]

\* A frame as the handler sees it after split('\n', 1) and strip():
\* three frames that parse (ping, an action nobody knows, and a value on which
\* the dispatch raises, such as a JSON array, whose .get is an AttributeError),
\* one that does not parse, one blank.
ValidFrames == {"ping", "bogus", "crash_me"}
FrameKinds == ValidFrames \cup {"malformed", "blank"}
\* What is left in `buffer` after the last newline: text with no newline yet.
Partial == "partial"

VARIABLES
    running,            \* self.running
    listening,          \* the listener thread was started (bind succeeded)
    request_counter,    \* self.request_counter
    response_queues,    \* self.response_queues: request_id -> queue contents
    command_queue,      \* self.command_queue: sequence of (request_id, command)
    pc,                 \* per connection: where its _handle_client thread is
    buffer,             \* per connection: complete frames still in `buffer`
    message,            \* per connection: local message (stripped frame)
    request_id,         \* per connection: local request_id
    response,           \* per connection: local response
    tpc,                \* where update_display is
    commands_processed, \* update_display's local counter
    t_item,             \* update_display's (request_id, command)
    t_response,         \* update_display's response
    \* history
    allocated,          \* request ids in allocation order: [id, conn]
    enqueued,           \* the items put on command_queue, in put order
    executed,           \* _process_command calls in order: [request_id, command, by]
    sent,               \* per connection: frames written to the socket
    timedout,           \* request ids whose handler's get() raised Empty
    send_failed,        \* request ids whose sendall(response_str) raised
    frames,             \* frames the clients have begun to send so far
    t_done,             \* executor calls made by the running tick invocation
    busy_ticks,         \* tick invocations that began with a command queued
    \* finer grain, used by the specifications that need it
    request_lock,       \* self.request_lock: 0, or the connection whose handler holds it
    wire,               \* bytes one client has sent and recv has not yet returned
    delivered,          \* the bytes recv has returned so far
    char_buffer,        \* that handler's `buffer`, character by character
    messages,           \* the non-empty messages that handler has extracted
    framing_pc          \* that handler: "reading" or "closed"

hvars == <<pc, buffer, message, request_id, response>>
tvars == <<tpc, commands_processed, t_item, t_response, t_done>>
vars == <<running, listening, request_counter, response_queues, command_queue,
          pc, buffer, message, request_id, response,
          tpc, commands_processed, t_item, t_response,
          allocated, enqueued, executed, sent, timedout, send_failed, frames,
          t_done, busy_ticks,
          request_lock, wire, delivered, char_buffer, messages, framing_pc>>

fvars == <<wire, delivered, char_buffer, messages, framing_pc>>
\* The variables that only LockSpec and FramingSpec change.
aux == <<request_lock, wire, delivered, char_buffer, messages, framing_pc>>

shared == <<running, listening, request_counter, response_queues, command_queue, aux>>
hist == <<allocated, enqueued, executed, sent, timedout, send_failed, frames,
          busy_ticks>>

\* ------------------------------------------------------- pure operators

\* Non-empty sequences over S of length at most n.
SeqsUpTo(S, n) == UNION {[1..k -> S] : k \in 1..n}

Range(s) == {s[i] : i \in DOMAIN s}

\* json.loads(message) returns a command, or raises.
\* (mutant) a parser that takes anything.
json_loads_ok_all(m) == TRUE
json_loads_ok(m) == m \in ValidFrames
json_loads(m) == [action |-> m]

\* An error string as <<what it begins with, the rest>>.
TimeoutResult ==
    [ok |-> FALSE, message |-> "",
     error |-> <<"Command processing timeout", " - main thread may be busy">>,
     keys |-> {"ok", "error"}]

\* {"ok": False, "error": str(e)} of the handler's except branch.
ErrorResult(e) ==
    [ok |-> FALSE, message |-> "", error |-> <<e, "">>, keys |-> {"ok", "error"}]

\* _process_command(command): the dispatch on command['action'].
_process_command(command) ==
    IF command.action = "ping"
    THEN [ok |-> TRUE, message |-> "pong (queue-based, thread-safe)",
          error |-> <<"", "">>, keys |-> {"ok", "message", "script"}]
    ELSE IF command.action = "crash_me"
    THEN [ok |-> FALSE, message |-> "", error |-> <<"str(e)", "">>,
          keys |-> {"ok", "error", "traceback"}]
    ELSE [ok |-> FALSE, message |-> "",
          error |-> <<"Unknown action: ", command.action>>,
          keys |-> {"ok", "error", "available_actions"}]

\* request_id = self.request_counter; self.request_counter += 1
NewRequestId(counter) == counter
\* (mutant) the increment is lost.
NextCounter_stuck(counter) == counter
NextCounter(counter) == counter + 1

\* queue.Queue(): put appends, get_nowait takes the oldest item.
\* (mutant) a LIFO: put pushes at the front.
QueuePut_front(q, item) == <<item>> \o q
QueuePut(q, item) == Append(q, item)
\* (mutant) get_nowait returns the newest item.
QueueFront_newest(q) == q[Len(q)]
QueueFront(q) == Head(q)
\* (mutant) get_nowait peeks without removing.
QueueRest_keep(q) == q
QueueRest(q) == Tail(q)

\* del self.response_queues[request_id]
Without(f, k) == [x \in DOMAIN f \ {k} |-> f[x]]

\* The inner loop `while '\n' in buffer`: the next message, or back to recv.
AfterMessage(buf) == IF buf # <<>> /\ Head(buf) # Partial THEN "msg" ELSE "loop"

\* What a handler holds in `response`: the dict, and (history) where it came from.
FromTick(id, res) == [src |-> "result", of |-> id, body |-> res]
FromTimeout == [src |-> "timeout", of |-> -1, body |-> TimeoutResult]
FromError(e) == [src |-> "error", of |-> -1, body |-> ErrorResult(e)]

\* One call of _process_command, and the thread that made it.
Call(item, thread) ==
    [request_id |-> item.request_id, command |-> item.command, by |-> thread]

\* (mutant) the handler reports success whatever the Result says.
Frame_ok(id, resp) ==
    [req |-> id, src |-> resp.src, of |-> resp.of,
     body |-> [resp.body EXCEPT !.ok = TRUE], end |-> "\n"]
\* A frame written to connection h's socket while it served request id.
\* (json.dumps(response) + '\n'): one line, ended by one newline.
Frame(id, resp) ==
    [req |-> id, src |-> resp.src, of |-> resp.of, body |-> resp.body, end |-> "\n"]

\* ------------------------------------------------------------------ Init

\* request_lock = threading.Lock(): free; no bytes on the wire.
AuxInit ==
    /\ request_lock = 0
    /\ wire = << >>
    /\ delivered = << >>
    /\ char_buffer = << >>
    /\ messages = << >>
    /\ framing_pc = "reading"

BridgeInit ==
    /\ running = TRUE
    /\ listening \in BOOLEAN
    /\ request_counter = 0
    /\ response_queues = << >>
    /\ command_queue = << >>
    /\ pc = [h \in Conns |-> "unborn"]
    /\ buffer = [h \in Conns |-> << >>]
    /\ message = [h \in Conns |-> ""]
    /\ request_id = [h \in Conns |-> -1]
    /\ response = [h \in Conns |-> None]
    /\ tpc = "idle"
    /\ commands_processed = 0
    /\ t_item = None
    /\ t_response = None
    /\ allocated = << >>
    /\ enqueued = << >>
    /\ executed = << >>
    /\ sent = [h \in Conns |-> << >>]
    /\ timedout = {}
    /\ send_failed = {}
    /\ frames = 0
    /\ t_done = 0
    /\ busy_ticks = 0

Init == BridgeInit /\ AuxInit

\* ------------------------------------------------- acceptor and lifecycle

\* _socket_listener: accept() returns a client and its handler thread starts.
Accept(h) ==
    /\ running /\ listening
    /\ pc[h] = "unborn"
    /\ \A g \in Conns : g < h => pc[g] # "unborn"
    /\ pc' = [pc EXCEPT ![h] = "loop"]
    /\ UNCHANGED <<shared, buffer, message, request_id, response, tvars, hist>>

\* disconnect(): running = False and the listening socket is closed.
Disconnect ==
    /\ running
    /\ running' = FALSE
    /\ listening' = FALSE
    /\ UNCHANGED <<request_counter, response_queues, command_queue, aux,
                   hvars, tvars, hist>>

\* ------------------------------------------------------- _handle_client

\* (mutant) the handler returns from a stopped bridge without closing.
HandlerLoop_noclose(h) ==
    /\ pc[h] = "loop"
    /\ pc' = [pc EXCEPT ![h] = IF running THEN "recv" ELSE "returned"]
    /\ UNCHANGED <<shared, buffer, message, request_id, response, tvars, hist>>

\* (mutant) the outer loop is `while True:`.
HandlerLoop_forever(h) ==
    /\ pc[h] = "loop"
    /\ pc' = [pc EXCEPT ![h] = "recv"]
    /\ UNCHANGED <<shared, buffer, message, request_id, response, tvars, hist>>

\* `while self.running:` at the top of the outer loop; leaving it closes the socket.
HandlerLoop(h) ==
    /\ pc[h] = "loop"
    /\ pc' = [pc EXCEPT ![h] = IF running THEN "recv" ELSE "closed"]
    /\ UNCHANGED <<shared, buffer, message, request_id, response, tvars, hist>>

\* recv returns data and `buffer += decoded`: the buffer now holds `chunk`, the
\* frames a newline has ended (the first of them begun by what the buffer
\* held), and then, if `tail`, text that no newline has ended yet.
HandlerRecvData(h) ==
    /\ pc[h] = "recv"
    /\ \E chunk \in {<< >>} \cup SeqsUpTo(FrameKinds, MaxChunk), tail \in BOOLEAN :
        LET begun == Len(chunk) + (IF tail THEN 1 ELSE 0)
                        - (IF buffer[h] # << >> THEN 1 ELSE 0)
        IN /\ chunk # << >> \/ tail
           /\ frames + begun <= MaxFrames
           /\ buffer' = [buffer EXCEPT ![h] =
                             chunk \o (IF tail THEN <<Partial>> ELSE << >>)]
           /\ frames' = frames + begun
        /\ pc' = [pc EXCEPT ![h] = IF chunk # << >> THEN "msg" ELSE "loop"]
    /\ UNCHANGED <<shared, message, request_id, response, tvars,
                   allocated, enqueued, executed, sent, timedout, send_failed, busy_ticks>>

\* (mutant) a timeout throws away what was buffered.
HandlerRecvTimeout_drop(h) ==
    /\ pc[h] = "recv"
    /\ pc' = [pc EXCEPT ![h] = "loop"]
    /\ buffer' = [buffer EXCEPT ![h] = << >>]
    /\ UNCHANGED <<shared, message, request_id, response, tvars, hist>>

\* recv raises socket.timeout: `continue`.
HandlerRecvTimeout(h) ==
    /\ pc[h] = "recv"
    /\ pc' = [pc EXCEPT ![h] = "loop"]
    /\ UNCHANGED <<shared, buffer, message, request_id, response, tvars, hist>>

\* recv returns b'' or raises another error: `break`, then close().
HandlerRecvEnd(h) ==
    /\ pc[h] = "recv"
    /\ pc' = [pc EXCEPT ![h] = "closed"]
    /\ UNCHANGED <<shared, buffer, message, request_id, response, tvars, hist>>

\* (mutant) the response queue is not created with the request id.
HandlerMessage_late(h) ==
    /\ pc[h] = "msg"
    /\ LET m == Head(buffer[h])
           rest == Tail(buffer[h])
           id == NewRequestId(request_counter)
       IN /\ buffer' = [buffer EXCEPT ![h] = rest]
          /\ IF m = "blank"
             THEN /\ pc' = [pc EXCEPT ![h] = AfterMessage(rest)]
                  /\ UNCHANGED <<message, request_id, request_counter, allocated>>
             ELSE /\ message' = [message EXCEPT ![h] = m]
                  /\ request_id' = [request_id EXCEPT ![h] = id]
                  /\ request_counter' = NextCounter(request_counter)
                  /\ allocated' = Append(allocated, [id |-> id, conn |-> h])
                  /\ pc' = [pc EXCEPT ![h] = "parse"]
    /\ UNCHANGED <<running, listening, aux, command_queue, response, response_queues, tvars,
                   enqueued, executed, sent, timedout, send_failed, frames, busy_ticks>>

\* (mutant) without `if message:`, an empty line is a message like any other.
HandlerMessage_noblank(h) ==
    /\ pc[h] = "msg"
    /\ LET id == NewRequestId(request_counter)
       IN /\ buffer' = [buffer EXCEPT ![h] = Tail(buffer[h])]
          /\ message' = [message EXCEPT ![h] = Head(buffer[h])]
          /\ request_id' = [request_id EXCEPT ![h] = id]
          /\ request_counter' = NextCounter(request_counter)
          /\ response_queues' = (id :> << >>) @@ response_queues
          /\ allocated' = Append(allocated, [id |-> id, conn |-> h])
          /\ pc' = [pc EXCEPT ![h] = "parse"]
    /\ UNCHANGED <<running, listening, aux, command_queue, response, tvars,
                   enqueued, executed, sent, timedout, send_failed, frames, busy_ticks>>

\* message, buffer = buffer.split('\n', 1); strip; a non-empty message gets a
\* request id and a response queue under request_lock.
HandlerMessage(h) ==
    /\ pc[h] = "msg"
    /\ LET m == Head(buffer[h])
           rest == Tail(buffer[h])
           id == NewRequestId(request_counter)
       IN /\ buffer' = [buffer EXCEPT ![h] = rest]
          /\ IF m = "blank"
             THEN /\ pc' = [pc EXCEPT ![h] = AfterMessage(rest)]
                  /\ UNCHANGED <<message, request_id, request_counter,
                                 response_queues, allocated>>
             ELSE /\ message' = [message EXCEPT ![h] = m]
                  /\ request_id' = [request_id EXCEPT ![h] = id]
                  /\ request_counter' = NextCounter(request_counter)
                  /\ response_queues' = (id :> << >>) @@ response_queues
                  /\ allocated' = Append(allocated, [id |-> id, conn |-> h])
                  /\ pc' = [pc EXCEPT ![h] = "parse"]
    /\ UNCHANGED <<running, listening, aux, command_queue, response, tvars,
                   enqueued, executed, sent, timedout, send_failed, frames, busy_ticks>>

\* The end of one pass of the inner loop: the locals are dead until the next
\* message overwrites them.
EndOfMessage(h) ==
    /\ pc' = [pc EXCEPT ![h] = AfterMessage(buffer[h])]
    /\ message' = [message EXCEPT ![h] = ""]
    /\ request_id' = [request_id EXCEPT ![h] = -1]
    /\ response' = [response EXCEPT ![h] = None]

\* (mutant) the handler puts the command and goes on to its next message
\* without waiting for the Result.
HandlerParse_pipeline(h) ==
    /\ pc[h] = "parse"
    /\ IF json_loads_ok(message[h])
       THEN /\ LET item == [request_id |-> request_id[h],
                            command |-> json_loads(message[h])]
               IN /\ command_queue' = QueuePut(command_queue, item)
                  /\ enqueued' = Append(enqueued, item)
            /\ UNCHANGED sent
       ELSE /\ \E written \in BOOLEAN :
                sent' = [sent EXCEPT ![h] =
                    IF written
                    THEN Append(@, Frame(request_id[h], FromError("json")))
                    ELSE @]
            /\ UNCHANGED <<command_queue, enqueued>>
    /\ EndOfMessage(h)
    /\ UNCHANGED <<running, listening, aux, request_counter, response_queues,
                   buffer, tvars, allocated, executed, timedout, send_failed, frames,
                   busy_ticks>>

\* (mutant) the handler thread runs the command itself instead of queueing it.
HandlerParse_direct(h) ==
    /\ pc[h] = "parse"
    /\ IF json_loads_ok(message[h])
       THEN LET item == [request_id |-> request_id[h],
                        command |-> json_loads(message[h])]
            IN /\ executed' = Append(executed, Call(item, "_handle_client"))
               /\ response' = [response EXCEPT ![h] =
                      FromTick(item.request_id, _process_command(item.command))]
               /\ pc' = [pc EXCEPT ![h] = "respond"]
               /\ UNCHANGED <<sent, message, request_id>>
       ELSE /\ \E written \in BOOLEAN :
                sent' = [sent EXCEPT ![h] =
                    IF written
                    THEN Append(@, Frame(request_id[h], FromError("json")))
                    ELSE @]
            /\ EndOfMessage(h)
            /\ UNCHANGED executed
    /\ UNCHANGED <<shared, buffer, tvars, allocated, enqueued, timedout,
                   send_failed, frames, busy_ticks>>

\* command = json.loads(message), then command_queue.put((request_id, command));
\* a message that does not parse goes to `except Exception`, which writes
\* {"ok": False, "error": str(e)} and ignores a failure of that write.
HandlerParse(h) ==
    /\ pc[h] = "parse"
    /\ IF json_loads_ok(message[h])
       THEN /\ LET item == [request_id |-> request_id[h],
                            command |-> json_loads(message[h])]
               IN /\ command_queue' = QueuePut(command_queue, item)
                  /\ enqueued' = Append(enqueued, item)
            /\ pc' = [pc EXCEPT ![h] = "wait"]
            /\ UNCHANGED <<sent, message, request_id, response>>
       ELSE /\ \E written \in BOOLEAN :
                sent' = [sent EXCEPT ![h] =
                    IF written
                    THEN Append(@, Frame(request_id[h], FromError("json")))
                    ELSE @]
            /\ EndOfMessage(h)
            /\ UNCHANGED <<command_queue, enqueued>>
    /\ UNCHANGED <<running, listening, aux, request_counter, response_queues,
                   buffer, tvars, allocated, executed, timedout, send_failed, frames,
                   busy_ticks>>

\* (mutant) one response queue shared by all requests: get takes whatever
\* result is there.
HandlerGet_any(h) ==
    /\ pc[h] = "wait"
    /\ \E id \in DOMAIN response_queues :
        /\ response_queues[id] # << >>
        /\ response' = [response EXCEPT ![h] = Head(response_queues[id])]
        /\ response_queues' = [response_queues EXCEPT ![id] = Tail(@)]
    /\ pc' = [pc EXCEPT ![h] = "respond"]
    /\ UNCHANGED <<running, listening, aux, request_counter, command_queue,
                   buffer, message, request_id, tvars, hist>>

\* self.response_queues[request_id].get(timeout=25.0) returns the item.
HandlerGet(h) ==
    /\ pc[h] = "wait"
    /\ response_queues[request_id[h]] # << >>
    /\ response' = [response EXCEPT ![h] = Head(response_queues[request_id[h]])]
    /\ response_queues' = [response_queues EXCEPT ![request_id[h]] = Tail(@)]
    /\ pc' = [pc EXCEPT ![h] = "respond"]
    /\ UNCHANGED <<running, listening, aux, request_counter, command_queue,
                   buffer, message, request_id, tvars, hist>>

\* (mutant) a handler that gives up takes its command back off the queue.
HandlerTimeout_cancel(h) ==
    /\ pc[h] = "wait"
    /\ response_queues[request_id[h]] = << >>
    /\ response' = [response EXCEPT ![h] = FromTimeout]
    /\ timedout' = timedout \cup {request_id[h]}
    /\ command_queue' = SelectSeq(command_queue,
                            LAMBDA item : item.request_id # request_id[h])
    /\ pc' = [pc EXCEPT ![h] = "respond"]
    /\ UNCHANGED <<running, listening, aux, request_counter, response_queues,
                   buffer, message, request_id, tvars,
                   allocated, enqueued, executed, sent, send_failed, frames, busy_ticks>>

\* get(timeout=25.0) raises queue.Empty: nothing was put within 25 s.
HandlerTimeout(h) ==
    /\ pc[h] = "wait"
    /\ response_queues[request_id[h]] = << >>
    /\ response' = [response EXCEPT ![h] = FromTimeout]
    /\ timedout' = timedout \cup {request_id[h]}
    /\ pc' = [pc EXCEPT ![h] = "respond"]
    /\ UNCHANGED <<shared, buffer, message, request_id, tvars,
                   allocated, enqueued, executed, sent, send_failed, frames, busy_ticks>>

\* (mutant) the clean-up is forgotten.
Cleanup_none(queues, id) == queues
\* with self.request_lock: del self.response_queues[request_id]
Cleanup(queues, id) == IF id \in DOMAIN queues THEN Without(queues, id) ELSE queues

\* The clean-up under request_lock, then client_socket.sendall(response_str);
\* if sendall raises, `except Exception` writes {"ok": False, "error": str(e)}
\* to the same socket and ignores a second failure.  Either way the inner
\* loop goes on with the next message.
HandlerRespond(h) ==
    /\ pc[h] = "respond"
    /\ response_queues' = Cleanup(response_queues, request_id[h])
    /\ \E first \in BOOLEAN, second \in BOOLEAN :
        /\ sent' = [sent EXCEPT ![h] =
            IF first THEN Append(@, Frame(request_id[h], response[h]))
            ELSE IF second THEN Append(@, Frame(request_id[h], FromError("send")))
            ELSE @]
        /\ send_failed' = IF first THEN send_failed
                          ELSE send_failed \cup {request_id[h]}
    /\ EndOfMessage(h)
    /\ UNCHANGED <<running, listening, aux, request_counter, command_queue, buffer,
                   tvars, allocated, enqueued, executed, timedout, frames, busy_ticks>>

\* ------------------------------------------------------- update_display

\* update_display() returns: its locals are gone.
TickReturn ==
    /\ tpc' = "idle"
    /\ commands_processed' = 0
    /\ t_item' = None
    /\ t_response' = None
    /\ t_done' = 0

\* (mutant) update_display takes a lock that a handler holds from its clean-up
\* until its write is done.
TickInvoke_lock ==
    /\ tpc = "idle"
    /\ \A h \in Conns : pc[h] # "respond"
    /\ IF command_queue # << >>
       THEN /\ t_item' = QueueFront(command_queue)
            /\ command_queue' = QueueRest(command_queue)
            /\ tpc' = "exec"
            /\ busy_ticks' = busy_ticks + 1
       ELSE UNCHANGED <<t_item, command_queue, tpc, busy_ticks>>
    /\ UNCHANGED <<running, listening, aux, request_counter, response_queues, hvars,
                   commands_processed, t_response, t_done,
                   allocated, enqueued, executed, sent, timedout, send_failed, frames>>

\* (mutant) update_display drops, without executing it, a command whose
\* handler has already given up.
TickInvoke_skip ==
    /\ tpc = "idle"
    /\ IF command_queue # << >>
       THEN /\ command_queue' = QueueRest(command_queue)
            /\ IF QueueFront(command_queue).request_id \in DOMAIN response_queues
               THEN /\ t_item' = QueueFront(command_queue)
                    /\ tpc' = "exec"
                    /\ busy_ticks' = busy_ticks + 1
               ELSE UNCHANGED <<t_item, tpc, busy_ticks>>
       ELSE UNCHANGED <<t_item, command_queue, tpc, busy_ticks>>
    /\ UNCHANGED <<running, listening, aux, request_counter, response_queues, hvars,
                   commands_processed, t_response, t_done,
                   allocated, enqueued, executed, sent, timedout, send_failed, frames>>

\* The host calls update_display(): commands_processed = 0, and the first
\* get_nowait(); on an empty queue the call returns having changed nothing.
TickInvoke ==
    /\ tpc = "idle"
    /\ IF command_queue # << >>
       THEN /\ t_item' = QueueFront(command_queue)
            /\ command_queue' = QueueRest(command_queue)
            /\ tpc' = "exec"
            /\ busy_ticks' = busy_ticks + 1
       ELSE UNCHANGED <<t_item, command_queue, tpc, busy_ticks>>
    /\ UNCHANGED <<running, listening, aux, request_counter, response_queues, hvars,
                   commands_processed, t_response, t_done,
                   allocated, enqueued, executed, sent, timedout, send_failed, frames>>

\* A later pass of `while commands_processed < max_commands_per_tick:` with its
\* get_nowait(); queue.Empty breaks out of the loop.
TickGet ==
    /\ tpc = "get"
    /\ IF commands_processed < max_commands_per_tick /\ command_queue # << >>
       THEN /\ t_item' = QueueFront(command_queue)
            /\ command_queue' = QueueRest(command_queue)
            /\ tpc' = "exec"
            /\ UNCHANGED <<commands_processed, t_response, t_done>>
       ELSE /\ TickReturn
            /\ UNCHANGED command_queue
    /\ UNCHANGED <<running, listening, aux, request_counter, response_queues,
                   hvars, hist>>

\* (mutant) an exception of the dispatch is not caught: it reaches the loop's
\* `except Exception`, which breaks.
TickProcess_abort ==
    /\ tpc = "exec"
    /\ executed' = Append(executed, Call(t_item, "update_display"))
    /\ IF t_item.command.action = "crash_me"
       THEN TickReturn
       ELSE /\ t_response' = FromTick(t_item.request_id, _process_command(t_item.command))
            /\ t_done' = t_done + 1
            /\ tpc' = IF t_item.request_id \in DOMAIN response_queues THEN "put" ELSE "get"
            /\ commands_processed' =
                  IF t_item.request_id \in DOMAIN response_queues
                  THEN commands_processed ELSE commands_processed + 1
            /\ UNCHANGED t_item
    /\ UNCHANGED <<shared, hvars,
                   allocated, enqueued, sent, timedout, send_failed, frames, busy_ticks>>

\* response = self._process_command(command), then the test
\* `request_id in self.response_queues`.
TickProcess ==
    /\ tpc = "exec"
    /\ t_response' = FromTick(t_item.request_id, _process_command(t_item.command))
    /\ executed' = Append(executed, Call(t_item, "update_display"))
    /\ t_done' = t_done + 1
    /\ IF t_item.request_id \in DOMAIN response_queues
       THEN /\ tpc' = "put"
            /\ UNCHANGED commands_processed
       ELSE /\ tpc' = "get"
            /\ commands_processed' = commands_processed + 1
    /\ UNCHANGED <<shared, hvars, t_item,
                   allocated, enqueued, sent, timedout, send_failed, frames, busy_ticks>>

\* (mutant) update_display creates the entry again when the handler has
\* removed it (setdefault in place of the subscript).
TickPut_create ==
    /\ tpc = "put"
    /\ response_queues' =
          IF t_item.request_id \in DOMAIN response_queues
          THEN [response_queues EXCEPT ![t_item.request_id] = Append(@, t_response)]
          ELSE (t_item.request_id :> <<t_response>>) @@ response_queues
    /\ commands_processed' = commands_processed + 1
    /\ tpc' = "get"
    /\ UNCHANGED <<t_item, t_response, t_done>>
    /\ UNCHANGED <<running, listening, aux, request_counter, command_queue,
                   hvars, hist>>

\* self.response_queues[request_id].put(response); commands_processed += 1.
\* The subscript raises KeyError when the entry was deleted since the test:
\* `except Exception` logs it and breaks out of the loop.
TickPut ==
    /\ tpc = "put"
    /\ IF t_item.request_id \in DOMAIN response_queues
       THEN /\ response_queues' = [response_queues EXCEPT
                    ![t_item.request_id] = Append(@, t_response)]
            /\ commands_processed' = commands_processed + 1
            /\ tpc' = "get"
            /\ UNCHANGED <<t_item, t_response, t_done>>
       ELSE /\ TickReturn
            /\ UNCHANGED response_queues
    /\ UNCHANGED <<running, listening, aux, request_counter, command_queue,
                   hvars, hist>>

\* ------------------------------------------------------------------ Next

Next ==
    \/ \E h \in Conns : Accept(h)
    \/ Disconnect
    \/ \E h \in Conns : HandlerLoop(h)
    \/ \E h \in Conns : HandlerRecvData(h)
    \/ \E h \in Conns : HandlerRecvTimeout(h)
    \/ \E h \in Conns : HandlerRecvEnd(h)
    \/ \E h \in Conns : HandlerMessage(h)
    \/ \E h \in Conns : HandlerParse(h)
    \/ \E h \in Conns : HandlerGet(h)
    \/ \E h \in Conns : HandlerTimeout(h)
    \/ \E h \in Conns : HandlerRespond(h)
    \/ TickInvoke
    \/ TickGet
    \/ TickProcess
    \/ TickPut

Spec == Init /\ [][Next]_vars

\* ------------------------------------------------------------- fairness
\* Every handler is a thread of its own: it is scheduled, and each of its
\* blocking calls returns (recv within the 30 s socket timeout, get within
\* 25 s, sendall within the socket timeout).  What recv and sendall return is
\* the peer's choice, and the host is not obliged ever to call update_display.
HandlerFairness ==
    \A h \in Conns :
        /\ WF_vars(HandlerLoop(h))
        /\ WF_vars(HandlerRecvData(h) \/ HandlerRecvTimeout(h) \/ HandlerRecvEnd(h))
        /\ WF_vars(HandlerMessage(h))
        /\ WF_vars(HandlerParse(h))
        /\ WF_vars(HandlerGet(h) \/ HandlerTimeout(h))
        /\ WF_vars(HandlerRespond(h))

FairSpec == Init /\ [][Next]_vars /\ HandlerFairness

\* A fair host: Live keeps calling update_display() while commands are queued,
\* and a call that has begun runs on to its return.  Nothing is assumed of the
\* handlers or the clients.
TickFairness ==
    /\ WF_vars(TickInvoke)
    /\ WF_vars(TickGet)
    /\ WF_vars(TickProcess)
    /\ WF_vars(TickPut)

TickFairSpec == Init /\ [][Next]_vars /\ TickFairness

\* ------------------------------------------------------------- shutdown

\* Any step of the thread that runs _handle_client for connection h.
HandlerStep(h) ==
    \/ HandlerLoop(h)
    \/ HandlerRecvData(h)
    \/ HandlerRecvTimeout(h)
    \/ HandlerRecvEnd(h)
    \/ HandlerMessage(h)
    \/ HandlerParse(h)
    \/ HandlerGet(h)
    \/ HandlerTimeout(h)
    \/ HandlerRespond(h)

\* Live calls disconnect() on its main thread, the thread that also runs
\* update_display: never in the middle of an invocation.
HostDisconnect == tpc = "idle" /\ Disconnect

\* Live calls update_display() on a script it has not unloaded.
HostTick == running /\ (TickInvoke \/ TickGet \/ TickProcess \/ TickPut)

ShutdownNext ==
    \/ \E h \in Conns : Accept(h)
    \/ HostDisconnect
    \/ \E h \in Conns : HandlerStep(h)
    \/ HostTick

\* Every handler is a thread of its own (daemon threads started by
\* _socket_listener) that the operating system keeps scheduling; recv, get and
\* sendall return or raise within their timeouts.
ThreadFairness == \A h \in Conns : WF_vars(HandlerStep(h))

ShutdownSpec == Init /\ [][ShutdownNext]_vars /\ ThreadFairness

\* ------------------------------------------------------ the registry lock
\* The handler's two `with self.request_lock:` blocks taken apart: taking the
\* lock, the block's body with the release, and the write that follows the
\* second block.  update_display takes no lock.

\* message, buffer = buffer.split('\n', 1); message.strip(); `if message:`.
HandlerSplit(h) ==
    /\ pc[h] = "msg"
    /\ LET m == Head(buffer[h])
           rest == Tail(buffer[h])
       IN /\ buffer' = [buffer EXCEPT ![h] = rest]
          /\ IF m = "blank"
             THEN /\ pc' = [pc EXCEPT ![h] = AfterMessage(rest)]
                  /\ UNCHANGED message
             ELSE /\ message' = [message EXCEPT ![h] = m]
                  /\ pc' = [pc EXCEPT ![h] = "lock_alloc"]
    /\ UNCHANGED <<shared, request_id, response, tvars, hist>>

\* `with self.request_lock:` of line 138 gets the lock.
AllocAcquire(h) ==
    /\ pc[h] = "lock_alloc"
    /\ request_lock = 0
    /\ request_lock' = h
    /\ pc' = [pc EXCEPT ![h] = "alloc"]
    /\ UNCHANGED <<running, listening, request_counter, response_queues,
                   command_queue, fvars, buffer, message, request_id, response,
                   tvars, hist>>

\* Lines 139-142, and the lock is released at the end of the block.
AllocRelease(h) ==
    /\ pc[h] = "alloc"
    /\ request_lock = h
    /\ LET id == NewRequestId(request_counter)
       IN /\ request_id' = [request_id EXCEPT ![h] = id]
          /\ request_counter' = NextCounter(request_counter)
          /\ response_queues' = (id :> << >>) @@ response_queues
          /\ allocated' = Append(allocated, [id |-> id, conn |-> h])
    /\ request_lock' = 0
    /\ pc' = [pc EXCEPT ![h] = "parse"]
    /\ UNCHANGED <<running, listening, command_queue, fvars, buffer, message,
                   response, tvars, enqueued, executed, sent, timedout,
                   send_failed, frames, busy_ticks>>

\* `with self.request_lock:` of line 161 gets the lock.
CleanupAcquire(h) ==
    /\ pc[h] = "respond"
    /\ request_lock = 0
    /\ request_lock' = h
    /\ pc' = [pc EXCEPT ![h] = "cleanup"]
    /\ UNCHANGED <<running, listening, request_counter, response_queues,
                   command_queue, fvars, buffer, message, request_id, response,
                   tvars, hist>>

\* (mutant) the lock is kept for the write that follows.
CleanupRelease_hold(h) ==
    /\ pc[h] = "cleanup"
    /\ request_lock = h
    /\ response_queues' = Cleanup(response_queues, request_id[h])
    /\ pc' = [pc EXCEPT ![h] = "send"]
    /\ UNCHANGED <<running, listening, request_counter, command_queue, aux,
                   buffer, message, request_id, response, tvars, hist>>

\* Lines 162-163, and the lock is released at the end of the block.
CleanupRelease(h) ==
    /\ pc[h] = "cleanup"
    /\ request_lock = h
    /\ response_queues' = Cleanup(response_queues, request_id[h])
    /\ request_lock' = 0
    /\ pc' = [pc EXCEPT ![h] = "send"]
    /\ UNCHANGED <<running, listening, request_counter, command_queue, fvars,
                   buffer, message, request_id, response, tvars, hist>>

\* client_socket.sendall(response_str) and, if it raises, the except branch's
\* write, as in HandlerRespond.
HandlerSend(h) ==
    /\ pc[h] = "send"
    /\ \E first \in BOOLEAN, second \in BOOLEAN :
        /\ sent' = [sent EXCEPT ![h] =
            IF first THEN Append(@, Frame(request_id[h], response[h]))
            ELSE IF second THEN Append(@, Frame(request_id[h], FromError("send")))
            ELSE @]
        /\ send_failed' = IF first THEN send_failed
                          ELSE send_failed \cup {request_id[h]}
    /\ EndOfMessage(h)
    /\ UNCHANGED <<shared, buffer, tvars, allocated, enqueued, executed,
                   timedout, frames, busy_ticks>>

LockNext ==
    \/ \E h \in Conns : Accept(h)
    \/ Disconnect
    \/ \E h \in Conns : HandlerLoop(h)
    \/ \E h \in Conns : HandlerRecvData(h)
    \/ \E h \in Conns : HandlerRecvTimeout(h)
    \/ \E h \in Conns : HandlerRecvEnd(h)
    \/ \E h \in Conns : HandlerSplit(h)
    \/ \E h \in Conns : AllocAcquire(h)
    \/ \E h \in Conns : AllocRelease(h)
    \/ \E h \in Conns : HandlerParse(h)
    \/ \E h \in Conns : HandlerGet(h)
    \/ \E h \in Conns : HandlerTimeout(h)
    \/ \E h \in Conns : CleanupAcquire(h)
    \/ \E h \in Conns : CleanupRelease(h)
    \/ \E h \in Conns : HandlerSend(h)
    \/ TickInvoke
    \/ TickGet
    \/ TickProcess
    \/ TickPut

LockSpec == Init /\ [][LockNext]_vars

\* -------------------------------------------------------------- framing
\* One client's byte stream, read in chunks of any size: data = recv(4096),
\* decoded = data.decode('utf-8'), buffer += decoded, and the inner loop.

\* The bytes: a letter, a space, the newline, and the two bytes of one
\* character outside ASCII (U+00E9 is C3 A9 in UTF-8).
Bytes == {"a", " ", "\n", "C3", "A9"}

\* bytes.decode('utf-8') returns the text, or raises UnicodeDecodeError.
RECURSIVE decode_ok(_)
decode_ok(data) ==
    IF data = << >> THEN TRUE
    ELSE IF Head(data) = "C3"
         THEN Len(data) >= 2 /\ data[2] = "A9" /\ decode_ok(Tail(Tail(data)))
    ELSE IF Head(data) = "A9" THEN FALSE
    ELSE decode_ok(Tail(data))

RECURSIVE decode(_)
decode(data) ==
    IF data = << >> THEN << >>
    ELSE IF Head(data) = "C3" THEN <<"e-acute">> \o decode(Tail(Tail(data)))
    ELSE <<Head(data)>> \o decode(Tail(data))

\* str.strip()
RECURSIVE strip(_)
strip(m) ==
    IF m = << >> THEN m
    ELSE IF Head(m) = " " THEN strip(Tail(m))
    ELSE IF m[Len(m)] = " " THEN strip(SubSeq(m, 1, Len(m) - 1))
    ELSE m

\* while '\n' in buffer: message, buffer = buffer.split('\n', 1);
\* message = message.strip(); if message: (the message is handled).
RECURSIVE InnerLoop(_, _)
InnerLoop(buf, msgs) ==
    IF "\n" \in Range(buf)
    THEN LET i == CHOOSE i \in 1..Len(buf) :
                    buf[i] = "\n" /\ \A j \in 1..(i - 1) : buf[j] # "\n"
             m == strip(SubSeq(buf, 1, i - 1))
         IN InnerLoop(SubSeq(buf, i + 1, Len(buf)),
                      IF m # << >> THEN Append(msgs, m) ELSE msgs)
    ELSE [buffer |-> buf, messages |-> msgs]

\* One pass of the outer loop: recv returns the next n bytes.  A decode error
\* is `except Exception: break`, and the socket is closed.
FramingRecv ==
    /\ framing_pc = "reading"
    /\ wire # << >>
    /\ \E n \in 1..Len(wire) :
        LET data == SubSeq(wire, 1, n)
        IN /\ wire' = SubSeq(wire, n + 1, Len(wire))
           /\ delivered' = delivered \o data
           /\ IF decode_ok(data)
              THEN LET after == InnerLoop(char_buffer \o decode(data), messages)
                   IN /\ char_buffer' = after.buffer
                      /\ messages' = after.messages
                      /\ UNCHANGED framing_pc
              ELSE /\ framing_pc' = "closed"
                   /\ UNCHANGED <<char_buffer, messages>>
    /\ UNCHANGED <<running, listening, request_counter, response_queues,
                   command_queue, request_lock, hvars, tvars, hist>>

\* A client is about to send a stream that is valid UTF-8 as a whole.
FramingInit ==
    /\ BridgeInit
    /\ request_lock = 0
    /\ wire \in {bs \in SeqsUpTo(Bytes, MaxStream) : decode_ok(bs)}
    /\ delivered = << >>
    /\ char_buffer = << >>
    /\ messages = << >>
    /\ framing_pc = "reading"

FramingNext == FramingRecv

FramingSpec == FramingInit /\ [][FramingNext]_vars

\* ---------------------------------------------------------------- burst
\* A burst left on the queue: n commands were put and update_display has not
\* run since.  The command at position p (if p > 0) belongs to connection 1,
\* whose handler is still in get(); the handlers of all the others have timed
\* out, answered and gone back to recv (connection 1 for those before p,
\* connection 2 for those after).  From here no client sends anything more.
BurstItem(i) == [request_id |-> i - 1, command |-> json_loads("ping")]

TimeoutFrames(first, n) == [i \in 1..n |-> Frame(first + i - 1, FromTimeout)]

BurstInit ==
    \E n \in (max_commands_per_tick + 1)..BurstMax : \E p \in 0..n :
        /\ running = TRUE
        /\ listening = TRUE
        /\ request_counter = n
        /\ command_queue = [i \in 1..n |-> BurstItem(i)]
        /\ response_queues = IF p = 0 THEN << >> ELSE (p - 1) :> << >>
        /\ pc = [h \in Conns |-> IF h = 1 /\ p > 0 THEN "wait" ELSE "recv"]
        /\ buffer = [h \in Conns |-> << >>]
        /\ message = [h \in Conns |-> IF h = 1 /\ p > 0 THEN "ping" ELSE ""]
        /\ request_id = [h \in Conns |-> IF h = 1 /\ p > 0 THEN p - 1 ELSE -1]
        /\ response = [h \in Conns |-> None]
        /\ tpc = "idle"
        /\ commands_processed = 0
        /\ t_item = None
        /\ t_response = None
        /\ t_done = 0
        /\ busy_ticks = 0
        /\ allocated = [i \in 1..n |->
                          [id |-> i - 1, conn |-> IF p > 0 /\ i > p THEN 2 ELSE 1]]
        /\ enqueued = [i \in 1..n |-> BurstItem(i)]
        /\ executed = << >>
        /\ sent = [h \in Conns |->
                     IF h = 1 THEN TimeoutFrames(0, IF p = 0 THEN n ELSE p - 1)
                     ELSE IF h = 2 /\ p > 0 THEN TimeoutFrames(p, n - p)
                     ELSE << >>]
        /\ timedout = {i - 1 : i \in 1..n} \ {p - 1}
        /\ send_failed = {}
        /\ frames = n
        /\ AuxInit

BurstNext ==
    \/ \E h \in Conns : HandlerGet(h)
    \/ \E h \in Conns : HandlerTimeout(h)
    \/ \E h \in Conns : HandlerRespond(h)
    \/ TickInvoke
    \/ TickGet
    \/ TickProcess
    \/ TickPut

BurstSpec == BurstInit /\ [][BurstNext]_vars

\* ============================================================= properties

Last(s) == s[Len(s)]
Min(a, b) == IF a < b THEN a ELSE b
Count(s, id) == Cardinality({i \in DOMAIN s : s[i].request_id = id})
Ids(s) == {s[i].request_id : i \in DOMAIN s}
\* The connection whose handler allocated request id.
Owner(id) == allocated[CHOOSE i \in DOMAIN allocated : allocated[i].id = id].conn
\* The frames written for request id, as <<connection, position>>.
FramesFor(id) == {<<h, i>> \in Conns \X (1..MaxFrames) :
                    i \in DOMAIN sent[h] /\ sent[h][i].req = id}
\* The handler that took request id is through with it.
Finished(id) == request_id[Owner(id)] # id
\* The command popped by update_display and not yet passed to _process_command.
InFlight == IF tpc = "exec" THEN <<t_item>> ELSE << >>

\* --- C1: request isolation.  Every request that was enqueued gets frames only
\* on its own connection, at most one of them, and that frame is the Result of
\* that very request's command or the handler's timeout error (a frame written
\* after sendall raised is the handler's own error frame); once the handler is
\* through with a request whose sendall did not raise there is exactly one.
\* No frame on any connection carries the Result of another request.
C1_RequestIsolation ==
    /\ \A k \in DOMAIN enqueued :
        LET id == enqueued[k].request_id
            cmd == enqueued[k].command
        IN /\ \A h \in Conns : \A i \in DOMAIN sent[h] :
                sent[h][i].req = id =>
                    /\ h = Owner(id)
                    /\ \/ sent[h][i].src = "timeout" /\ sent[h][i].body = TimeoutResult
                       \/ /\ sent[h][i].src = "result"
                          /\ sent[h][i].of = id
                          /\ sent[h][i].body = _process_command(cmd)
                       \/ sent[h][i].src = "error" /\ id \in send_failed
           /\ Cardinality(FramesFor(id)) <= 1
           /\ (Finished(id) /\ id \notin send_failed) =>
                 /\ Cardinality(FramesFor(id)) = 1
                 /\ \A f \in FramesFor(id) : sent[f[1]][f[2]].src # "error"
    /\ \A h \in Conns : \A i \in DOMAIN sent[h] :
        sent[h][i].src = "result" => sent[h][i].of = sent[h][i].req
    /\ \A h \in Conns :
        (response[h] # None /\ response[h].src = "result") =>
            response[h].of = request_id[h]

\* Two connections have each been answered with the Result of their own
\* command.
C1_Witness ==
    /\ \A h \in Conns : \E i \in DOMAIN sent[h] : sent[h][i].src = "result"
    /\ Len(executed) = 2

\* --- C2: no command is lost or duplicated.  Every item put on command_queue is
\* in exactly one place: still queued, popped and about to be executed, or
\* executed; each exactly once, and nothing else is queued or executed.
C2_NoLossNoDup ==
    /\ \A k \in DOMAIN enqueued :
        LET id == enqueued[k].request_id
        IN Count(command_queue, id) + Count(InFlight, id) + Count(executed, id) = 1
    /\ Len(command_queue) + Len(InFlight) + Len(executed) = Len(enqueued)
    /\ \A i \in DOMAIN executed :
        \E k \in DOMAIN enqueued :
            /\ enqueued[k].request_id = executed[i].request_id
            /\ enqueued[k].command = executed[i].command

\* Two producers' commands have both been executed and the queue is drained.
C2_Witness ==
    /\ Len(executed) = 2
    /\ command_queue = << >>
    /\ Owner(executed[1].request_id) # Owner(executed[2].request_id)

\* --- C3: FIFO.  The executor is called on the commands in exactly the order
\* of their put: its calls, then the popped command, then the queue, read off
\* the sequence of puts.
C3_Fifo ==
    LET order == executed \o InFlight \o command_queue
    IN /\ Len(order) <= Len(enqueued)
       /\ \A i \in DOMAIN order :
            i <= Len(enqueued) => order[i].request_id = enqueued[i].request_id

\* Two commands were put in the order opposite to their request ids (the
\* second handler to allocate was the first to put) and executed in put order.
C3_Witness ==
    /\ Len(executed) = 2
    /\ executed[1].request_id > executed[2].request_id

\* --- C6: request ids are pairwise distinct and strictly increasing in
\* allocation order, so none is ever reused; handlers busy at the same time
\* hold different ids.
C6_UniqueIncreasingIds ==
    /\ \A i, j \in DOMAIN allocated :
        i < j => allocated[i].id < allocated[j].id
    /\ \A g, h \in Conns :
        (g # h /\ request_id[g] # -1 /\ request_id[h] # -1) =>
            request_id[g] # request_id[h]
    /\ \A i \in DOMAIN allocated : allocated[i].id < request_counter

\* Two handlers hold a request at the same time.
C6_Witness ==
    /\ Len(allocated) = 2
    /\ \A h \in Conns : request_id[h] # -1

\* --- C7: _process_command is called from update_display only; no handler
\* thread calls it, whether its message parsed, failed to parse or timed out,
\* and a handler never holds a Result that update_display did not produce.
C7_ExecutorOnlyInTick ==
    /\ \A i \in DOMAIN executed : executed[i].by = "update_display"
    /\ \A h \in Conns :
        (response[h] # None /\ response[h].src = "result") =>
            \E i \in DOMAIN executed : executed[i].request_id = response[h].of

\* A message failed to parse, a request timed out, and a command was executed.
C7_Witness ==
    /\ \E h \in Conns : \E i \in DOMAIN sent[h] :
        sent[h][i].src = "error" /\ sent[h][i].req \notin send_failed
    /\ timedout # {}
    /\ executed # << >>

\* --- C8: command timeout.  A handler whose get() timed out answers with
\* ok = false and an error beginning "Command processing timeout", has removed
\* its registry entry when it is done, and goes on with its loop (the next
\* message or the next recv): the connection is not closed.  The frame it
\* writes, when sendall does not raise, is that timeout Result.
C8_CommandTimeout ==
    [][\A h \in Conns :
        (pc[h] = "respond" /\ response[h].src = "timeout" /\ pc'[h] # "respond") =>
            /\ response[h].body.ok = FALSE
            /\ response[h].body.error[1] = "Command processing timeout"
            /\ request_id[h] \notin DOMAIN response_queues'
            /\ pc'[h] \in {"msg", "loop"}
            /\ (request_id[h] \notin send_failed') =>
                  /\ Len(sent'[h]) = Len(sent[h]) + 1
                  /\ Last(sent'[h]) = Frame(request_id[h], FromTimeout)]_vars

\* A connection was answered with the timeout error and then, for its next
\* request, with that request's Result.
C8_Witness ==
    \E h \in Conns :
        /\ Len(sent[h]) = 2
        /\ sent[h][1].src = "timeout"
        /\ sent[h][2].src = "result"
        /\ pc[h] = "recv"

\* --- C10: no cancellation.  The command of a request whose handler timed out
\* is still queued, popped or executed (never dropped), and the Result the
\* executor produces for it reaches no handler and no socket.
C10_NoCancellation ==
    \A id \in timedout :
        /\ id \in Ids(command_queue) \cup Ids(InFlight) \cup Ids(executed)
        /\ \A h \in Conns :
            /\ \A i \in DOMAIN sent[h] :
                ~(sent[h][i].src = "result" /\ sent[h][i].of = id)
            /\ ~(response[h] # None /\ response[h].src = "result"
                 /\ response[h].of = id)

\* A request timed out while its command was queued, its handler has answered
\* with the timeout error, and update_display has executed the command since.
C10_Witness ==
    \E id \in timedout :
        /\ id \in Ids(executed)
        /\ tpc = "idle"
        /\ \E h \in Conns : \E i \in DOMAIN sent[h] :
            sent[h][i].req = id /\ sent[h][i].src = "timeout"
        /\ id \notin DOMAIN response_queues

\* update_display returns in this step.
TickReturns == tpc # "idle" /\ tpc' = "idle"

\* --- C4: bounded batch.  One call of update_display executes at most 5
\* commands, and it returns having executed fewer than 5 only when the queue
\* is empty; returning leaves the commands it did not pop as they were.
C4_BoundedBatch ==
    [][TickReturns =>
        /\ t_done <= max_commands_per_tick
        /\ (t_done < max_commands_per_tick => command_queue = << >>)
        /\ command_queue' = command_queue]_vars

\* --- C5: burst draining.  With n > 5 commands queued and nothing more put,
\* each call of update_display executes exactly 5 commands, or all that were
\* left when fewer than 5 were, so that the queue is drained after exactly
\* ceil(n / 5) calls.
C5_BurstDraining ==
    /\ [][TickReturns =>
            t_done = Min(max_commands_per_tick, Len(command_queue) + t_done)]_vars
    /\ []((tpc = "idle" /\ command_queue = << >>) =>
            busy_ticks = (Len(enqueued) + max_commands_per_tick - 1)
                            \div max_commands_per_tick)

\* --- C9: bounded response.  Every request whose command a handler has put on
\* the queue eventually has a frame written for it, or its connection closed,
\* whether or not update_display is ever called.
C9_BoundedResponse ==
    \A h \in Conns : \A id \in 0..(MaxFrames - 1) :
        (pc[h] = "wait" /\ request_id[h] = id)
            ~> (FramesFor(id) # {} \/ pc[h] = "closed")

\* The Result of the dispatch's `except Exception` branch.
IsExecutorError(body) == body.ok = FALSE /\ body.error[1] = "str(e)"

C12_MalformedFrame ==
    /\ [][\A h \in Conns :
            (pc[h] = "parse" /\ message[h] = "malformed" /\ pc'[h] # "parse") =>
                /\ command_queue' = command_queue
                /\ enqueued' = enqueued
                /\ executed' = executed
                /\ pc'[h] \in {"msg", "loop"}
                /\ \/ sent'[h] = sent[h]
                   \/ /\ sent'[h] = Append(sent[h], Last(sent'[h]))
                      /\ Last(sent'[h]).req = request_id[h]
                      /\ Last(sent'[h]).src = "error"
                      /\ Last(sent'[h]).body.ok = FALSE
                /\ \A g \in Conns \ {h} : sent'[g] = sent[g]]_vars
    /\ [](\A k \in DOMAIN allocated :
            LET id == allocated[k].id
            IN id \notin Ids(enqueued) =>
                /\ id \notin Ids(executed) \cup Ids(InFlight) \cup Ids(command_queue)
                /\ Cardinality(FramesFor(id)) <= 1
                /\ \A f \in FramesFor(id) :
                    /\ f[1] = allocated[k].conn
                    /\ sent[f[1]][f[2]].src = "error"
                    /\ sent[f[1]][f[2]].body.ok = FALSE)

\* A connection was answered with the parse error and then, for its next
\* frame, with the Result of that frame's command, the only one ever queued.
C12_Witness ==
    \E h \in Conns :
        /\ Len(sent[h]) = 2
        /\ sent[h][1].src = "error"
        /\ sent[h][1].body = ErrorResult("json")
        /\ sent[h][2].src = "result"
        /\ Len(enqueued) = 1
        /\ Len(executed) = 1

\* The handlers that hold a request id and have not yet parsed their message.
Parsing == {h \in Conns : pc[h] = "parse"}

\* --- C13: a frame that fails to parse consumes no request id.  Once its
\* handler has answered it the counter and the registry are as they were
\* before: every id the counter has given out belongs to a command that was
\* put on the queue or to a message still to be parsed, and the registry has
\* entries for such ids only.
C13_MalformedConsumesNoId ==
    /\ request_counter = Len(enqueued) + Cardinality(Parsing)
    /\ DOMAIN response_queues \subseteq
            Ids(enqueued) \cup {request_id[h] : h \in Parsing}

\* --- C14: an empty or whitespace-only line is a no-op.  The step in which a
\* handler takes such a line off its buffer writes no frame, allocates no
\* request id, creates no registry entry and puts nothing on the queue; the
\* handler goes on with the next line or back to recv, its connection open.
C14_BlankLineNoOp ==
    [][\A h \in Conns :
        (pc[h] = "msg" /\ Head(buffer[h]) = "blank" /\ buffer'[h] # buffer[h]) =>
            /\ buffer'[h] = Tail(buffer[h])
            /\ sent' = sent
            /\ request_counter' = request_counter
            /\ allocated' = allocated
            /\ response_queues' = response_queues
            /\ command_queue' = command_queue
            /\ enqueued' = enqueued
            /\ pc'[h] \in {"msg", "loop"}]_vars

\* Two lines have come in and been taken off the buffers, only one of them got
\* a request id, and its connection has the Result: the other was blank.
C14_Witness ==
    /\ frames = 2
    /\ request_counter = 1
    /\ \A h \in Conns : buffer[h] = << >> /\ pc[h] \in {"unborn", "loop", "recv"}
    /\ \E h \in Conns : Len(sent[h]) = 1 /\ sent[h][1].src = "result"

\* --- C15: write failure closes the connection.  The step in which sendall
\* raises for a response leaves the handler closed, with nothing more written
\* to that socket; a handler whose write failed takes no further frame.
C15_WriteFailureCloses ==
    [][\A h \in Conns :
        (pc[h] = "respond" /\ pc'[h] # "respond"
            /\ request_id[h] \in send_failed') =>
                /\ pc'[h] = "closed"
                /\ sent'[h] = sent[h]]_vars

\* --- C16: a receive timeout is not an error.  A recv that brings no new text
\* (it timed out) sends the handler back to the top of its loop with its
\* buffer, the partial frame included, as it was, and from there, while the
\* bridge is running, to recv again.  A recv leaves the handler at the top of
\* the loop, at the first message of the new data, or closed (zero-length
\* read, any other error), and a handler once closed stays closed.
C16_RecvTimeoutNotAnError ==
    [][\A h \in Conns :
        /\ (pc[h] = "recv" /\ pc'[h] # "recv") =>
            /\ pc'[h] \in {"loop", "msg", "closed"}
            /\ (pc'[h] = "loop" /\ frames' = frames) => buffer'[h] = buffer[h]
            /\ (pc'[h] = "closed") => frames' = frames /\ sent' = sent
        /\ (pc[h] = "loop" /\ running /\ pc'[h] # "loop") => pc'[h] = "recv"
        /\ (pc[h] = "closed") => pc'[h] = "closed"]_vars

\* A handler that has answered a request waits in recv with a partial frame
\* buffered, the bridge running; another connection has been closed.
C16_Witness ==
    /\ running
    /\ \E h \in Conns :
        /\ pc[h] = "recv"
        /\ buffer[h] = <<Partial>>
        /\ sent[h] # << >>
        /\ frames = MaxFrames
    /\ \E g \in Conns : pc[g] = "closed"

\* --- C17: a slow or stalled client blocks nobody.  Whatever the handlers are
\* doing, update_display can be called and every step of a running invocation
\* can be taken; and a handler that has a line to take, a message to parse, a
\* Result to wait for or a response to write can take that step whatever the
\* other handlers and update_display are doing.
C17_NoBlocking ==
    /\ tpc = "idle" => ENABLED TickInvoke
    /\ tpc = "get" => ENABLED TickGet
    /\ tpc = "exec" => ENABLED TickProcess
    /\ tpc = "put" => ENABLED TickPut
    /\ \A h \in Conns :
        /\ pc[h] = "msg" => ENABLED HandlerMessage(h)
        /\ pc[h] = "parse" => ENABLED HandlerParse(h)
        /\ pc[h] = "wait" => ENABLED (HandlerGet(h) \/ HandlerTimeout(h))
        /\ pc[h] = "respond" => ENABLED HandlerRespond(h)

\* A handler is still waiting for its Result; a request that another
\* connection made later has been executed and answered.
C17_Witness ==
    \E h, g \in Conns :
        /\ h # g
        /\ pc[h] = "wait"
        /\ \E i \in DOMAIN sent[g] :
            /\ sent[g][i].src = "result"
            /\ sent[g][i].req > request_id[h]
        /\ tpc = "idle"

\* The command that was queued for request id.
CommandOf(id) ==
    enqueued[CHOOSE k \in DOMAIN enqueued : enqueued[k].request_id = id].command

\* --- C18: Result pass-through.  A Result that a handler got from its queue
\* before timing out is written as it is: every frame that carries a Result is
\* what _process_command returns for the action of that request's command,
\* with the same ok, ended by one newline; and the Result a handler holds, or
\* finds in its queue, is that of its own request's command.
C18_ResultPassThrough ==
    /\ \A h \in Conns : \A i \in DOMAIN sent[h] :
        sent[h][i].src = "result" =>
            /\ sent[h][i].req \in Ids(enqueued)
            /\ sent[h][i].req \notin timedout
            /\ sent[h][i].body = _process_command(CommandOf(sent[h][i].req))
            /\ sent[h][i].body.ok = _process_command(CommandOf(sent[h][i].req)).ok
            /\ sent[h][i].end = "\n"
    /\ \A h \in Conns :
        (response[h] # None /\ response[h].src = "result") =>
            response[h].body = _process_command(CommandOf(request_id[h]))
    /\ \A id \in DOMAIN response_queues : \A i \in DOMAIN response_queues[id] :
        response_queues[id][i].body = _process_command(CommandOf(id))

\* One connection has been answered with a Result that says ok, another with a
\* Result that says not ok.
C18_Witness ==
    \E h, g \in Conns : \E i \in DOMAIN sent[h] : \E j \in DOMAIN sent[g] :
        /\ h # g
        /\ sent[h][i].src = "result" /\ sent[h][i].body.ok = TRUE
        /\ sent[g][j].src = "result" /\ sent[g][j].body.ok = FALSE

\* --- C19: the reserved action ping is answered with the Result
\* {"ok": true, "message": "pong"} and nothing else.
C19_PingPong ==
    \A i \in DOMAIN executed :
        executed[i].command.action = "ping" =>
            LET result == _process_command(executed[i].command)
            IN /\ result.ok = TRUE
               /\ result.message = "pong"
               /\ result.keys = {"ok", "message"}

\* --- C20: bind failure is fatal to the bridge.  When the listening socket
\* could not be bound the bridge is not running, and while there is no
\* listening socket no connection is accepted.
C20_BindFailureFatal ==
    /\ [](~listening => ~running)
    /\ [][~listening =>
            \A h \in Conns : pc[h] = "unborn" => pc'[h] = "unborn"]_vars

\* --- C21: late-result discard is safe under every interleaving.  Whenever
\* update_display, having executed a command, finds that the registry entry
\* of its request is gone (at its test, or after it), it drops the Result,
\* counts the command and goes on with the loop of the same invocation.
C21_LateResultDiscard ==
    [][(tpc \in {"exec", "put"} /\ tpc' # tpc
            /\ t_item.request_id \notin DOMAIN response_queues) =>
                /\ tpc' = "get"
                /\ commands_processed' = commands_processed + 1
                /\ response_queues' = response_queues
                /\ command_queue' = command_queue]_vars

\* --- C22: registry lifecycle.  Every entry of response_queues belongs to the
\* request that some handler is working on right now (it has created the
\* entry and has not yet finished with the message); so the registry is empty
\* whenever every handler is at its loop, in recv, or closed.
C22_RegistryLifecycle ==
    /\ \A id \in DOMAIN response_queues :
        \E h \in Conns :
            /\ request_id[h] = id
            /\ pc[h] \in {"parse", "wait", "respond"}
    /\ (\A h \in Conns : pc[h] \in {"unborn", "loop", "recv", "closed"}) =>
            response_queues = << >>

\* The command update_display has popped and not yet published or dropped.
Popped == IF tpc \in {"exec", "put"} THEN <<t_item>> ELSE << >>

\* --- C23: the response queue is created before the command is put.  For
\* every command on command_queue, and for the one update_display has popped,
\* the request id was given out by the counter and its registry entry exists
\* or was removed by its handler after a timeout; update_display never looks
\* up an id whose entry is still to be created.
C23_ChannelBeforeEnqueue ==
    \A id \in Ids(command_queue) \cup Ids(Popped) :
        /\ id < request_counter
        /\ \E k \in DOMAIN allocated : allocated[k].id = id
        /\ id \in DOMAIN response_queues \/ id \in timedout

\* update_display has popped a command whose entry is there, and another
\* command is queued whose entry its handler has removed after timing out.
C23_Witness ==
    /\ tpc = "exec"
    /\ t_item.request_id \in DOMAIN response_queues
    /\ \E id \in Ids(command_queue) :
        id \in timedout /\ id \notin DOMAIN response_queues

\* --- C24: every allocated request id goes Create, then exactly one of
\* Resolve and Abandon.  No Result is ever published to a request whose handler
\* has timed out (never both), no queue ever gets a second Result (not twice),
\* and a handler lets go of a request id only with a Result from its queue
\* or after its own timeout (never neither).
C24_ResolveOrAbandonOnce ==
    /\ [](\A id \in DOMAIN response_queues :
            /\ Len(response_queues[id]) <= 1
            /\ id \in timedout => response_queues[id] = << >>)
    /\ [][\A h \in Conns :
            (request_id[h] # -1 /\ request_id'[h] # request_id[h]) =>
                /\ response[h] # None
                /\ response[h].src \in {"result", "timeout"}]_vars

\* The places where a handler is suspended: in recv, in get, in sendall.
Suspended(h) == pc[h] \in {"recv", "wait", "send"}

\* --- C25: a handler never holds request_lock while it is suspended in recv,
\* in get or in sendall.  The lock is held only inside the two blocks (id
\* allocation with the entry's insertion, and the entry's removal), and its
\* holder can always take the step that releases it, so nobody waits for the
\* lock forever.
C25_NoLockWhileSuspended ==
    /\ \A h \in Conns : Suspended(h) => request_lock # h
    /\ request_lock \in {0} \cup Conns
    /\ \A h \in Conns :
        request_lock = h =>
            /\ pc[h] \in {"alloc", "cleanup"}
            /\ ENABLED (AllocRelease(h) \/ CleanupRelease(h))

\* One handler holds the lock to remove its entry while another handler waits
\* for the lock to allocate an id.
C25_Witness ==
    \E h, g \in Conns :
        /\ request_lock = h
        /\ pc[h] = "cleanup"
        /\ pc[g] = "lock_alloc"

\* What the handler extracts when recv returns the whole stream at once.
WholeStream == InnerLoop(decode(delivered \o wire), << >>)

\* --- C26: framing does not depend on how the stream is split over reads.
\* However recv cuts the stream into chunks, the handler keeps reading, the
\* messages it has extracted are the first of those it extracts from the stream
\* read in one piece, and when the whole stream has been read it has extracted
\* the same messages and kept the same text after the last newline.
C26_FramingIndependentOfChunks ==
    /\ framing_pc = "reading"
    /\ Len(messages) <= Len(WholeStream.messages)
    /\ \A i \in DOMAIN messages : messages[i] = WholeStream.messages[i]
    /\ wire = << >> =>
        /\ messages = WholeStream.messages
        /\ char_buffer = WholeStream.buffer

\* --- C27: every handler closes its socket exactly once, on every exit path,
\* and touches it no more.  A handler leaves its loop (bridge stopped, peer
\* closed, receive error) only into "closed"; once closed it stays closed,
\* starts no new request, and nothing more is written to or taken from its
\* socket.
C27_ClosedExactlyOnce ==
    [][\A h \in Conns :
        /\ pc'[h] \in {"unborn", "loop", "recv", "msg", "parse", "wait",
                       "respond", "closed"}
        /\ (pc[h] = "loop" /\ ~running /\ pc'[h] # "loop") => pc'[h] = "closed"
        /\ (pc[h] = "recv" /\ pc'[h] \notin {"recv", "loop", "msg"}) =>
                pc'[h] = "closed"
        /\ (pc'[h] = "closed" /\ pc[h] # "closed") => pc[h] \in {"loop", "recv"}
        /\ (pc[h] = "closed") =>
                /\ pc'[h] = "closed"
                /\ sent'[h] = sent[h]
                /\ buffer'[h] = buffer[h]
                /\ request_id'[h] = request_id[h]]_vars

\* The bridge has been stopped and every handler has closed its socket, one of
\* them after it had answered a request.
C27_Witness ==
    /\ ~running
    /\ \A h \in Conns : pc[h] = "closed"
    /\ \E h \in Conns : sent[h] # << >>

\* --- C28: per-connection sequencing.  A connection has at most one command
\* that is queued or popped and whose handler has not given up on it, and it
\* is the request its handler is waiting for; the frames on a connection are
\* in the order of its requests; and when a connection's later request has got
\* its id, the handler is through with every earlier one, whose response has
\* been written (unless its write failed).
C28_PerConnectionSequencing ==
    /\ \A k \in DOMAIN (command_queue \o InFlight) :
        LET id == (command_queue \o InFlight)[k].request_id
        IN id \notin timedout =>
            /\ request_id[Owner(id)] = id
            /\ pc[Owner(id)] = "wait"
    /\ \A h \in Conns : \A i, j \in DOMAIN sent[h] :
        i < j => sent[h][i].req < sent[h][j].req
    /\ \A k, l \in DOMAIN allocated :
        (k < l /\ allocated[k].conn = allocated[l].conn) =>
            LET id == allocated[k].id
            IN /\ request_id[allocated[k].conn] # id
               /\ (id \in Ids(enqueued) /\ id \notin send_failed) =>
                    FramesFor(id) # {}

\* One connection has made two requests and has been answered twice, in the
\* order of the requests, each time with the Result.
C28_Witness ==
    \E h \in Conns :
        /\ Len(allocated) = 2
        /\ \A k \in DOMAIN allocated : allocated[k].conn = h
        /\ Len(sent[h]) = 2
        /\ sent[h][1].src = "result" /\ sent[h][1].req = 0
        /\ sent[h][2].src = "result" /\ sent[h][2].req = 1

\* --- C29: the commands of one connection are executed in the order in which
\* the connection sent them (the order of their request ids), also when an
\* earlier one timed out at its handler and was still queued when a later one
\* was put.
C29_PerConnectionExecutionOrder ==
    \A i, j \in DOMAIN executed :
        (i < j /\ Owner(executed[i].request_id) = Owner(executed[j].request_id)) =>
            executed[i].request_id < executed[j].request_id

\* A connection's first command timed out at its handler; one invocation of
\* update_display has executed it and then the connection's second command.
C29_Witness ==
    /\ Len(executed) = 2
    /\ t_done = 2
    /\ busy_ticks = 1
    /\ executed[1].request_id \in timedout
    /\ Owner(executed[1].request_id) = Owner(executed[2].request_id)
    /\ executed[1].request_id < executed[2].request_id

\* --- C30: progress under a fair host.  When the host keeps calling
\* update_display, every command that was put on command_queue is eventually
\* popped and executed, whether or not its handler timed out, the dispatch
\* raised, or an invocation ended early.
C30_ProgressUnderFairHost ==
    \A id \in 0..(MaxFrames - 1) :
        (id \in Ids(enqueued)) ~> (id \in Ids(executed))

\* Two commands were executed in two invocations: the first after its handler
\* had timed out, the second one for which the dispatch raised.
C30_Witness ==
    /\ Len(executed) = 2
    /\ Ids(enqueued) = Ids(executed)
    /\ busy_ticks = 2
    /\ executed[1].request_id \in timedout
    /\ executed[2].command.action = "crash_me"

\* --- C31: the effect of update_display.  A step of update_display leaves the
\* id counter, the set of registry entries, the allocations and every
\* handler's state as they were: it only takes items off command_queue and
\* appends a Result to an existing response queue.  An invocation that finds
\* command_queue empty changes nothing and calls _process_command zero times.
C31_TickFrameEffect ==
    /\ [][tpc' # tpc =>
            /\ request_counter' = request_counter
            /\ allocated' = allocated
            /\ enqueued' = enqueued
            /\ DOMAIN response_queues' = DOMAIN response_queues
            /\ \A id \in DOMAIN response_queues :
                  \/ response_queues'[id] = response_queues[id]
                  \/ /\ id = t_item.request_id
                     /\ response_queues'[id] = Append(response_queues[id], t_response)
            /\ \/ command_queue' = command_queue
               \/ command_queue # << >> /\ command_queue' = Tail(command_queue)
            /\ UNCHANGED <<running, listening, hvars>>]_vars
    /\ []((tpc = "idle" /\ command_queue = << >>) =>
            ~ENABLED (TickInvoke /\ vars' # vars))

\* update_display has popped a command, executed it and published its Result
\* to the entry its handler created; the counter stands where the handlers
\* left it.
C31_Witness ==
    /\ tpc = "get"
    /\ commands_processed = 1
    /\ Len(executed) = 1
    /\ executed[1].request_id \in DOMAIN response_queues
    /\ response_queues[executed[1].request_id] = <<t_response>>
    /\ request_counter = Len(allocated)

\* --- C32: shutdown.  Once disconnect() has set running to False and closed
\* the listening socket, the listener accepts no connection any more; a
\* handler that reaches the test of its outer loop from then on reads nothing
\* and closes its socket; and every handler that exists eventually has left
\* its loop and closed its socket.  (running never becomes True again, so
\* "eventually" is stated as: the bridge is not for ever stopped with a handler
\* still in its loop.)
C32_Shutdown ==
    /\ [](~running => ~listening)
    /\ [][~running =>
            \A h \in Conns :
                /\ pc[h] = "unborn" => pc'[h] = "unborn"
                /\ pc[h] = "loop" =>
                      /\ pc'[h] \in {"loop", "closed"}
                      /\ buffer'[h] = buffer[h]
                      /\ request_id'[h] = request_id[h]]_vars
    /\ []<>(running \/ \A h \in Conns : pc[h] \in {"unborn", "closed"})

\* The bridge was stopped while a handler waited for a Result: the handler's
\* wait timed out, it has left its loop and closed its socket, and its command
\* is still on command_queue.
C32_Witness ==
    /\ ~running
    /\ ~listening
    /\ \A h \in Conns : pc[h] = "closed"
    /\ timedout # {}
    /\ command_queue # << >>

====
